---- MODULE Spec2Model ----
(***************************************************************************)
(* A model of @altevo/okay: the Result type (OkImpl / ErrImpl), its        *)
(* constructors Ok and Err, the adapters Try and TryAsync, and the string  *)
(* renderer resultToString.                                                *)
(*                                                                         *)
(* Result objects live in a heap (a sequence; an object's identity is its  *)
(* index).  Every method is an operator from the receiver to an outcome:   *)
(* what the call returned or threw, the callbacks it invoked, and the      *)
(* receiver's fields after the call.  One action per method applies it.    *)
(***************************************************************************)
EXTENDS Integers, Sequences, FiniteSets, TLC

VARIABLES heap, born, prov, last, tasks

vars == <<heap, born, prov, last, tasks>>

(***************************************************************************)
(* Bounds                                                                  *)
(***************************************************************************)
\* Result objects one run allocates.
MaxObjs == 3
\* Concurrent TryAsync calls.
MaxTasks == 2

(***************************************************************************)
(* Payloads: the JavaScript values a Result may hold.                      *)
(***************************************************************************)
Null == [kind |-> "null", num |-> 0, msg |-> ""]
Num(n) == [kind |-> "number", num |-> n, msg |-> ""]
Str(s) == [kind |-> "string", num |-> 0, msg |-> s]
\* A plain object literal { message: m }.
Obj(m) == [kind |-> "object", num |-> 0, msg |-> m]
\* new Error(m)
Error(m) == [kind |-> "Error", num |-> 0, msg |-> m]

Payloads ==
    {Null, Num(0), Num(1), Str("Division by zero"), Obj("boom"),
     Error("boom"), Error("oops")}

\* e instanceof Error
InstanceOfError(e) == e.kind = "Error"

\* a ?? b
Coalesce(a, b) == IF a = Null THEN b ELSE a

\* JSON.stringify(v, null, 2).  An Error has no enumerable own property.
JSONstringify(v) ==
    CASE v.kind = "null" -> "null"
      [] v.kind = "number" -> ToString(v.num)
      [] v.kind = "string" -> "\"" \o v.msg \o "\""
      [] v.kind = "object" -> "{\n  \"message\": \"" \o v.msg \o "\"\n}"
      [] v.kind = "Error" -> "{}"

(***************************************************************************)
(* Callbacks handed to map, mapError, fold, onOk, onError.  A callback is  *)
(* a sequence of primitives applied left to right, so that <<f, g>> is     *)
(* x => g(f(x)).                                                           *)
(***************************************************************************)
Prims == {"flip", "fail", "throws"}

\* flip: x => 1 - x on numbers, null otherwise;  fail: x => new Error("oops");
\* throws: x => { throw new Error("boom") }
InvokePrim(p, v) ==
    CASE p = "flip" ->
            [threw |-> FALSE,
             val |-> IF v.kind = "number" THEN Num(1 - v.num) ELSE Null]
      [] p = "fail" -> [threw |-> FALSE, val |-> Error("oops")]
      [] p = "throws" -> [threw |-> TRUE, val |-> Error("boom")]

RECURSIVE Invoke(_, _)
Invoke(fn, v) ==
    IF fn = <<>> THEN [threw |-> FALSE, val |-> v]
    ELSE LET r == InvokePrim(Head(fn), v)
         IN  IF r.threw THEN r ELSE Invoke(Tail(fn), r.val)

Fns == {<<p>> : p \in Prims}
NoFn == <<>>

(***************************************************************************)
(* Result objects                                                          *)
(***************************************************************************)
NoObj == [class |-> "none"]

\* new OkImpl(val)
Ok(val) == [class |-> "OkImpl", isOk |-> TRUE, isError |-> FALSE, value |-> val]

\* new ErrImpl(val)
Err(val) == [class |-> "ErrImpl", isOk |-> FALSE, isError |-> TRUE, error |-> val]

(***************************************************************************)
(* Outcomes of a call                                                      *)
(***************************************************************************)
Outcome(kind, val, str, obj, self, calls) ==
    [kind |-> kind, val |-> val, str |-> str, obj |-> obj, self |-> self,
     calls |-> calls]

RetVal(self, v, calls) == Outcome("value", v, "", NoObj, self, calls)
RetStr(self, s) == Outcome("string", Null, s, NoObj, self, <<>>)
RetVoid(self, calls) == Outcome("void", Null, "", NoObj, self, calls)
RetThis(self) == Outcome("this", Null, "", NoObj, self, <<>>)
RetNew(self, obj, calls) == Outcome("new", Null, "", obj, self, calls)
Throw(self, e, calls) == Outcome("throw", e, "", NoObj, self, calls)

Call(fn, v) == [fn |-> fn, arg |-> v]

(***************************************************************************)
(* class OkImpl                                                            *)
(***************************************************************************)
OkImpl_getOrNull(self) == RetVal(self, self.value, <<>>)

OkImpl_getOrDefault(self, defaultVal) == RetVal(self, self.value, <<>>)

OkImpl_getOrThrow(self) == RetVal(self, self.value, <<>>)

OkImpl_errorOrNull(self) == RetVal(self, Null, <<>>)

\* Mutant: map overwrites the receiver's value and returns the receiver.
OkImpl_map_InPlace(self, fn) ==
    LET r == Invoke(fn, self.value)
        calls == <<Call(fn, self.value)>>
    IN  IF r.threw THEN Throw(self, r.val, calls)
        ELSE Outcome("this", Null, "", NoObj, [self EXCEPT !.value = r.val], calls)

\* Mutant: map wraps the old value; the callback's result is dropped.
OkImpl_map_Stale(self, fn) ==
    LET r == Invoke(fn, self.value)
        calls == <<Call(fn, self.value)>>
    IN  IF r.threw THEN Throw(self, r.val, calls)
        ELSE RetNew(self, Ok(self.value), calls)

\* return Ok(fn(this.value)): a throw of fn leaves before Ok is reached.
OkImpl_map(self, fn) ==
    LET r == Invoke(fn, self.value)
        calls == <<Call(fn, self.value)>>
    IN  IF r.threw THEN Throw(self, r.val, calls)
        ELSE RetNew(self, Ok(r.val), calls)

OkImpl_mapError(self, fn) == RetThis(self)

OkImpl_fold(self, okFn, errFn) ==
    LET r == Invoke(okFn, self.value)
        calls == <<Call(okFn, self.value)>>
    IN  IF r.threw THEN Throw(self, r.val, calls)
        ELSE RetVal(self, r.val, calls)

OkImpl_onOk(self, fn) ==
    LET r == Invoke(fn, self.value)
        calls == <<Call(fn, self.value)>>
    IN  IF r.threw THEN Throw(self, r.val, calls)
        ELSE RetVoid(self, calls)

\* Mutant: onError of an Ok runs the callback on the value.
OkImpl_onError_Fires(self, fn) ==
    LET r == Invoke(fn, self.value)
        calls == <<Call(fn, self.value)>>
    IN  IF r.threw THEN Throw(self, r.val, calls)
        ELSE RetVoid(self, calls)

OkImpl_onError(self, fn) == RetVoid(self, <<>>)

(***************************************************************************)
(* class ErrImpl                                                           *)
(***************************************************************************)
\* Mutant: getOrNull of an Err hands out the error.
ErrImpl_getOrNull_Error(self) == RetVal(self, self.error, <<>>)

ErrImpl_getOrNull(self) == RetVal(self, Null, <<>>)

ErrImpl_getOrDefault(self, defaultVal) == RetVal(self, defaultVal, <<>>)

\* Mutant: throw new Error(this.error.message) in place of throw this.error.
ErrImpl_getOrThrow_Wrapped(self) == Throw(self, Error(self.error.msg), <<>>)

ErrImpl_getOrThrow(self) == Throw(self, self.error, <<>>)

ErrImpl_errorOrNull(self) == RetVal(self, self.error, <<>>)

\* Mutant: map of an Err runs the callback on the error before returning this.
ErrImpl_map_Invokes(self, fn) ==
    LET r == Invoke(fn, self.error)
        calls == <<Call(fn, self.error)>>
    IN  IF r.threw THEN Throw(self, r.val, calls)
        ELSE Outcome("this", Null, "", NoObj, self, calls)

ErrImpl_map(self, fn) == RetThis(self)

\* return Err(fn(this.error))
ErrImpl_mapError(self, fn) ==
    LET r == Invoke(fn, self.error)
        calls == <<Call(fn, self.error)>>
    IN  IF r.threw THEN Throw(self, r.val, calls)
        ELSE RetNew(self, Err(r.val), calls)

ErrImpl_fold(self, okFn, errFn) ==
    LET r == Invoke(errFn, self.error)
        calls == <<Call(errFn, self.error)>>
    IN  IF r.threw THEN Throw(self, r.val, calls)
        ELSE RetVal(self, r.val, calls)

ErrImpl_onOk(self, fn) == RetVoid(self, <<>>)

ErrImpl_onError(self, fn) ==
    LET r == Invoke(fn, self.error)
        calls == <<Call(fn, self.error)>>
    IN  IF r.threw THEN Throw(self, r.val, calls)
        ELSE RetVoid(self, calls)

(***************************************************************************)
(* Dynamic dispatch on the receiver's class, and the string renderer.      *)
(***************************************************************************)
getOrNull(self) ==
    IF self.class = "OkImpl" THEN OkImpl_getOrNull(self)
    ELSE ErrImpl_getOrNull(self)

errorOrNull(self) ==
    IF self.class = "OkImpl" THEN OkImpl_errorOrNull(self)
    ELSE ErrImpl_errorOrNull(self)

resultToString(result) ==
    LET prefix == IF result.isOk THEN "Ok" ELSE "Err"
    IN  prefix \o "("
        \o JSONstringify(Coalesce(getOrNull(result).val, errorOrNull(result).val))
        \o ")"

OkImpl_toString(self) == RetStr(self, resultToString(self))

\* Mutant: no special case for Error payloads.
ErrImpl_toString_Generic(self) == RetStr(self, resultToString(self))

ErrImpl_toString(self) ==
    IF InstanceOfError(self.error)
    THEN RetStr(self, "Err(" \o self.error.msg \o ")")
    ELSE RetStr(self, resultToString(self))

getOrDefault(self, defaultVal) ==
    IF self.class = "OkImpl" THEN OkImpl_getOrDefault(self, defaultVal)
    ELSE ErrImpl_getOrDefault(self, defaultVal)

getOrThrow(self) ==
    IF self.class = "OkImpl" THEN OkImpl_getOrThrow(self)
    ELSE ErrImpl_getOrThrow(self)

map(self, fn) ==
    IF self.class = "OkImpl" THEN OkImpl_map(self, fn) ELSE ErrImpl_map(self, fn)

mapError(self, fn) ==
    IF self.class = "OkImpl" THEN OkImpl_mapError(self, fn)
    ELSE ErrImpl_mapError(self, fn)

fold(self, okFn, errFn) ==
    IF self.class = "OkImpl" THEN OkImpl_fold(self, okFn, errFn)
    ELSE ErrImpl_fold(self, okFn, errFn)

onOk(self, fn) ==
    IF self.class = "OkImpl" THEN OkImpl_onOk(self, fn) ELSE ErrImpl_onOk(self, fn)

onError(self, fn) ==
    IF self.class = "OkImpl" THEN OkImpl_onError(self, fn)
    ELSE ErrImpl_onError(self, fn)

toString(self) ==
    IF self.class = "OkImpl" THEN OkImpl_toString(self) ELSE ErrImpl_toString(self)

(***************************************************************************)
(* Try: the thunk fn either returns fn.val or throws it.                   *)
(***************************************************************************)
Thunks == [throws : BOOLEAN, val : Payloads]
NoThunk == [throws |-> FALSE, val |-> Null]

RunThunk(fn) == [threw |-> fn.throws, val |-> fn.val]

\* Mutant: no catch, the fault leaves Try.
Try_NoCatch(fn) ==
    LET r == RunThunk(fn)
    IN  IF r.threw THEN Throw(NoObj, r.val, <<>>)
        ELSE RetNew(NoObj, Ok(r.val), <<>>)

\* try { return Ok(fn()) } catch (e) { return Err(e) }
Try(fn) ==
    LET r == RunThunk(fn)
    IN  IF r.threw THEN RetNew(NoObj, Err(r.val), <<>>)
        ELSE RetNew(NoObj, Ok(r.val), <<>>)

(***************************************************************************)
(* The caller: one run constructs a Result (Ok, Err or Try) and then calls *)
(* methods on it and on the Results these calls return, one call at a      *)
(* time: a call's outcome is held in last until the caller moves on.       *)
(*   heap   the Result objects, by identity                                *)
(*   born   each object as its constructor left it                         *)
(*   prov   how each object came to be: the constructing call              *)
(*   last   the latest call: its arguments and its outcome                 *)
(***************************************************************************)
Refs == 1..Len(heap)

NoCall ==
    [op |-> "none", this |-> 0, arg |-> Null, fn |-> NoFn, fn2 |-> NoFn,
     thunk |-> NoThunk, out |-> RetVoid(NoObj, <<>>), ref |-> 0]

Origin(op, from, arg, fn, thunk) ==
    [op |-> op, from |-> from, arg |-> arg, fn |-> fn, thunk |-> thunk]

\* A constructing call (no receiver): the new object, if one is returned,
\* enters the heap.
Construct(op, arg, thunk, out) ==
    /\ last = NoCall
    /\ heap = <<>>
    /\ IF out.kind = "new"
       THEN /\ heap' = Append(heap, out.obj)
            /\ born' = Append(born, out.obj)
            /\ prov' = Append(prov, Origin(op, 0, arg, NoFn, thunk))
       ELSE UNCHANGED <<heap, born, prov>>
    /\ last' = [op |-> op, this |-> 0, arg |-> arg, fn |-> NoFn, fn2 |-> NoFn,
                thunk |-> thunk, out |-> out,
                ref |-> IF out.kind = "new" THEN Len(heap) + 1 ELSE 0]
    /\ UNCHANGED tasks

\* A method call on heap[i]: the receiver's fields become out.self, and a
\* newly constructed Result enters the heap.
Apply(op, i, arg, fn, fn2, out) ==
    /\ last = NoCall
    /\ out.kind = "new" => Len(heap) < MaxObjs
    /\ IF out.kind = "new"
       THEN /\ heap' = Append([heap EXCEPT ![i] = out.self], out.obj)
            /\ born' = Append(born, out.obj)
            /\ prov' = Append(prov, Origin(op, i, arg, fn, NoThunk))
       ELSE /\ heap' = [heap EXCEPT ![i] = out.self]
            /\ UNCHANGED <<born, prov>>
    /\ last' = [op |-> op, this |-> i, arg |-> arg, fn |-> fn, fn2 |-> fn2,
                thunk |-> NoThunk, out |-> out,
                ref |-> CASE out.kind = "new" -> Len(heap) + 1
                          [] out.kind = "this" -> i
                          [] OTHER -> 0]
    /\ UNCHANGED tasks

CallOk(v) == Construct("Ok", v, NoThunk, RetNew(NoObj, Ok(v), <<>>))

CallErr(e) == Construct("Err", e, NoThunk, RetNew(NoObj, Err(e), <<>>))

CallTry(fn) == Construct("Try", Null, fn, Try(fn))

CallGetOrNull(i) == Apply("getOrNull", i, Null, NoFn, NoFn, getOrNull(heap[i]))

CallGetOrDefault(i, d) ==
    Apply("getOrDefault", i, d, NoFn, NoFn, getOrDefault(heap[i], d))

CallGetOrThrow(i) == Apply("getOrThrow", i, Null, NoFn, NoFn, getOrThrow(heap[i]))

CallErrorOrNull(i) ==
    Apply("errorOrNull", i, Null, NoFn, NoFn, errorOrNull(heap[i]))

CallMap(i, fn) == Apply("map", i, Null, fn, NoFn, map(heap[i], fn))

CallMapError(i, fn) == Apply("mapError", i, Null, fn, NoFn, mapError(heap[i], fn))

CallFold(i, okFn, errFn) ==
    Apply("fold", i, Null, okFn, errFn, fold(heap[i], okFn, errFn))

CallOnOk(i, fn) == Apply("onOk", i, Null, fn, NoFn, onOk(heap[i], fn))

CallOnError(i, fn) == Apply("onError", i, Null, fn, NoFn, onError(heap[i], fn))

\* result.onOk(a); result.onError(b);  a throw of a ends the sequence.
OnOkThenOnError(self, a, b) ==
    LET first == onOk(self, a)
        second == onError(first.self, b)
    IN  IF first.kind = "throw" THEN first
        ELSE [second EXCEPT !.calls = first.calls \o second.calls]

CallOnOkThenOnError(i, a, b) ==
    Apply("onOk;onError", i, Null, a, b, OnOkThenOnError(heap[i], a, b))

CallToString(i) == Apply("toString", i, Null, NoFn, NoFn, toString(heap[i]))

\* The caller is done with the latest outcome and goes on to its next call.
Return ==
    /\ last # NoCall
    /\ last' = NoCall
    /\ UNCHANGED <<heap, born, prov, tasks>>

(***************************************************************************)
(* TryAsync.  fn, called once, either throws before it returns a promise   *)
(* or returns a promise: pending (its owner settles it later), already     *)
(* fulfilled, or already rejected.  The async function runs to its await,  *)
(* is suspended there, and is resumed once the awaited promise is settled. *)
(*   pc      idle (not called), awaiting (suspended at the await), done    *)
(*   calls   how many times fn has been invoked                            *)
(*   awaits  how many times the call has been suspended at an await        *)
(*   sync    what the invocation of fn did synchronously                   *)
(*   inner   the promise fn returned                                       *)
(*   outer   the promise TryAsync returned                                 *)
(***************************************************************************)
Promise(state, val) == [state |-> state, val |-> val]
NoPromise == Promise("none", Null)

AsyncThunks ==
    [kind : {"throws", "fulfilled", "rejected"}, val : Payloads]
        \cup {[kind |-> "pending", val |-> Null]}

RunAsyncThunk(fn) ==
    IF fn.kind = "throws"
    THEN [threw |-> TRUE, val |-> fn.val, promise |-> NoPromise]
    ELSE [threw |-> FALSE, val |-> Null, promise |-> Promise(fn.kind, fn.val)]

Task(pc, calls, awaits, sync, inner, outerState, result) ==
    [pc |-> pc, calls |-> calls, awaits |-> awaits, sync |-> sync, inner |-> inner,
     outer |-> [state |-> outerState, result |-> result]]

IdleTask ==
    Task("idle", 0, 0, [threw |-> FALSE, val |-> Null], NoPromise, "none", NoObj)

\* Mutant: the await is missing, the call returns before the promise settles.
TryAsync_NoAwait(fn) ==
    LET r == RunAsyncThunk(fn)
        sync == [threw |-> r.threw, val |-> r.val]
    IN  IF r.threw THEN Task("done", 1, 0, sync, NoPromise, "fulfilled", Err(r.val))
        ELSE Task("done", 1, 0, sync, r.promise, "fulfilled", Ok(r.promise.val))

\* The call, up to the await: try { ... await fn() } catch (e) { return Err(e) }
TryAsync(fn) ==
    LET r == RunAsyncThunk(fn)
        sync == [threw |-> r.threw, val |-> r.val]
    IN  IF r.threw THEN Task("done", 1, 0, sync, NoPromise, "fulfilled", Err(r.val))
        ELSE Task("awaiting", 1, 1, sync, r.promise, "pending", NoObj)

\* Mutant: no catch, a rejection rejects the promise TryAsync returned.
TryAsyncResume_NoCatch(task) ==
    IF task.inner.state = "fulfilled"
    THEN [task EXCEPT !.pc = "done",
                      !.outer = [state |-> "fulfilled", result |-> Ok(task.inner.val)]]
    ELSE [task EXCEPT !.pc = "done",
                      !.outer = [state |-> "rejected", result |-> NoObj]]

\* The continuation of the await: return Ok(<value>), or the rejection is
\* thrown at the await, caught, and Err(e) returned.
TryAsyncResume(task) ==
    IF task.inner.state = "fulfilled"
    THEN [task EXCEPT !.pc = "done",
                      !.outer = [state |-> "fulfilled", result |-> Ok(task.inner.val)]]
    ELSE [task EXCEPT !.pc = "done",
                      !.outer = [state |-> "fulfilled", result |-> Err(task.inner.val)]]

Settled(promise) == promise.state \in {"fulfilled", "rejected"}

TaskIds == 1..MaxTasks

CallTryAsync(t, fn) ==
    /\ tasks[t].pc = "idle"
    /\ tasks' = [tasks EXCEPT ![t] = TryAsync(fn)]
    /\ UNCHANGED <<heap, born, prov, last>>

\* The owner of the promise fn returned settles it.
Settle(t, state, v) ==
    /\ tasks[t].inner.state = "pending"
    /\ tasks' = [tasks EXCEPT ![t].inner = Promise(state, v)]
    /\ UNCHANGED <<heap, born, prov, last>>

\* The job queue resumes a suspended call whose awaited promise is settled.
Resume(t) ==
    /\ tasks[t].pc = "awaiting"
    /\ Settled(tasks[t].inner)
    /\ tasks' = [tasks EXCEPT ![t] = TryAsyncResume(tasks[t])]
    /\ UNCHANGED <<heap, born, prov, last>>

Init ==
    /\ heap = <<>>
    /\ born = <<>>
    /\ prov = <<>>
    /\ last = NoCall
    /\ tasks = [t \in TaskIds |-> IdleTask]

Next ==
    \/ \E v \in Payloads : CallOk(v)
    \/ \E e \in Payloads : CallErr(e)
    \/ \E fn \in Thunks : CallTry(fn)
    \/ \E i \in Refs : CallGetOrNull(i)
    \/ \E i \in Refs, d \in Payloads : CallGetOrDefault(i, d)
    \/ \E i \in Refs : CallGetOrThrow(i)
    \/ \E i \in Refs : CallErrorOrNull(i)
    \/ \E i \in Refs, fn \in Fns : CallMap(i, fn)
    \/ \E i \in Refs, fn \in Fns : CallMapError(i, fn)
    \/ \E i \in Refs, okFn \in Fns, errFn \in Fns : CallFold(i, okFn, errFn)
    \/ \E i \in Refs, fn \in Fns : CallOnOk(i, fn)
    \/ \E i \in Refs, fn \in Fns : CallOnError(i, fn)
    \/ \E i \in Refs, a \in Fns, b \in Fns : CallOnOkThenOnError(i, a, b)
    \/ \E i \in Refs : CallToString(i)
    \/ Return

Spec == Init /\ [][Next]_vars

NextAsync ==
    \/ \E t \in TaskIds, fn \in AsyncThunks : CallTryAsync(t, fn)
    \/ \E t \in TaskIds, state \in {"fulfilled", "rejected"}, v \in Payloads :
          Settle(t, state, v)
    \/ \E t \in TaskIds : Resume(t)

\* The host's job queue runs every continuation that is ready; nothing obliges
\* fn to be called or its promise to be settled.
AsyncSpec ==
    Init /\ [][NextAsync]_vars /\ \A t \in TaskIds : WF_vars(Resume(t))

(***************************************************************************)
(* Properties                                                              *)
(***************************************************************************)
\* The object a call was made on, and the payload it was constructed with.
Receiver == heap[last.this]

Stored(i) == IF born[i].class = "OkImpl" THEN born[i].value ELSE born[i].error

\* C1: Try(fn) never raises; it returns Ok(x) when fn returns x, and an Err
\* holding exactly the fault E when fn raises E.
C1_TryCapturesFault ==
    last.op = "Try" =>
        /\ last.out.kind = "new"
        /\ last.ref = 1
        /\ IF last.thunk.throws
           THEN /\ heap[1].class = "ErrImpl"
                /\ heap[1].error = last.thunk.val
           ELSE /\ heap[1].class = "OkImpl"
                /\ heap[1].value = last.thunk.val

C1_Witness ==
    /\ last.op = "Try"
    /\ last.thunk = [throws |-> TRUE, val |-> Error("boom")]
    /\ heap[1].class = "ErrImpl"

\* C2: the promise TryAsync returns never rejects; once the call is done it
\* is fulfilled with Err(E) if fn raised E synchronously, with Ok(x) if fn's
\* promise was fulfilled with x, and with Err(E) if it was rejected with E.
C2_TryAsyncNeverRejects ==
    \A t \in TaskIds :
        /\ tasks[t].outer.state # "rejected"
        /\ tasks[t].pc = "done" =>
            /\ tasks[t].outer.state = "fulfilled"
            /\ tasks[t].outer.result =
                 IF tasks[t].sync.threw
                 THEN [class |-> "ErrImpl", isOk |-> FALSE, isError |-> TRUE,
                       error |-> tasks[t].sync.val]
                 ELSE IF tasks[t].inner.state = "fulfilled"
                 THEN [class |-> "OkImpl", isOk |-> TRUE, isError |-> FALSE,
                       value |-> tasks[t].inner.val]
                 ELSE [class |-> "ErrImpl", isOk |-> FALSE, isError |-> TRUE,
                       error |-> tasks[t].inner.val]

C2_Witness ==
    \E t, u \in TaskIds :
        /\ tasks[t].pc = "done"
        /\ tasks[t].inner = Promise("rejected", Error("boom"))
        /\ tasks[t].outer.result.class = "ErrImpl"
        /\ tasks[u].pc = "done"
        /\ tasks[u].sync = [threw |-> TRUE, val |-> Obj("boom")]

\* C3: getOrThrow returns the value of an Ok without raising, and on an Err
\* raises exactly the payload the Err was constructed with.
C3_GetOrThrow ==
    last.op = "getOrThrow" =>
        IF Receiver.class = "OkImpl"
        THEN last.out.kind = "value" /\ last.out.val = Stored(last.this)
        ELSE last.out.kind = "throw" /\ last.out.val = Stored(last.this)

C3_Witness ==
    /\ last.op = "getOrThrow"
    /\ Receiver.class = "ErrImpl"
    /\ last.out.kind = "throw"
    /\ last.out.val = Obj("boom")

\* C4: every Result is exactly one variant, and its flags and accessors agree
\* with it: Ok(v) has isOk, not isError, getOrNull() = v, errorOrNull() = null;
\* Err(e) has isError, not isOk, getOrNull() = null, errorOrNull() = e.
C4_AccessorsAgree ==
    /\ \A i \in Refs :
        /\ heap[i].isOk # heap[i].isError
        /\ heap[i].isOk = (heap[i].class = "OkImpl")
        /\ prov[i].op = "Ok" => heap[i].isOk /\ heap[i].value = prov[i].arg
        /\ prov[i].op = "Err" => heap[i].isError /\ heap[i].error = prov[i].arg
    /\ last.op = "getOrNull" =>
        /\ last.out.kind = "value"
        /\ last.out.val = IF Receiver.isOk THEN Stored(last.this) ELSE Null
    /\ last.op = "errorOrNull" =>
        /\ last.out.kind = "value"
        /\ last.out.val = IF Receiver.isOk THEN Null ELSE Stored(last.this)

C4_Witness ==
    /\ last.op = "getOrNull"
    /\ prov[last.this].op = "Err"
    /\ prov[last.this].arg = Error("oops")
    /\ last.out.val = Null

\* C5: a Result is immutable: whatever calls were made, every Result has the
\* variant and the payload its constructor gave it.
C5_Immutable == \A i \in Refs : heap[i] = born[i]

C5_Witness ==
    /\ Len(heap) = 3
    /\ prov[2].op = "map" /\ prov[2].from = 1
    /\ prov[3].op = "map" /\ prov[3].from = 1
    /\ last.op = "fold" /\ last.this = 1
    /\ heap[1] = born[1]

\* A payload that exposes a message attribute: an Error, or an object
\* literal { message: ... }.
HasMessage(e) == e.kind \in {"Error", "object"}

\* C6 as claimed: toString of Err(e) is "Err(<message>)" whenever e exposes a
\* message attribute, and "Err(<serialization of e>)" for every other e.
C6_Original ==
    (last.op = "toString" /\ Receiver.class = "ErrImpl") =>
        last.out.str =
            IF HasMessage(Receiver.error)
            THEN "Err(" \o Receiver.error.msg \o ")"
            ELSE "Err(" \o JSONstringify(Receiver.error) \o ")"

\* C6, amended: toString of Err(e) is "Err(<e.message>)" whenever e is an
\* instance of Error, and "Err(" + JSON.stringify(e, null, 2) + ")" for every
\* other e, an object that merely has a message attribute included; Try of a
\* function that throws Error("boom") renders as "Err(boom)".
C6_ErrToString ==
    (last.op = "toString" /\ Receiver.class = "ErrImpl") =>
        /\ last.out.kind = "string"
        /\ last.out.str =
            IF Receiver.error.kind = "Error"
            THEN "Err(" \o Receiver.error.msg \o ")"
            ELSE "Err(" \o JSONstringify(Receiver.error) \o ")"
        /\ (/\ prov[last.this].op = "Try"
            /\ prov[last.this].thunk = [throws |-> TRUE, val |-> Error("boom")])
           => last.out.str = "Err(boom)"

C6_Witness ==
    /\ last.op = "toString"
    /\ prov[last.this].op = "Try"
    /\ prov[last.this].thunk = [throws |-> TRUE, val |-> Error("boom")]
    /\ last.out.str = "Err(boom)"

\* C7: the functor composition law: a Result obtained as Ok(v).map(f).map(g)
\* is an Ok whose payload is g(f(v)), the payload of Ok(v).map(x => g(f(x))).
C7_MapComposition ==
    \A k \in Refs :
        (prov[k].op = "map" /\ prov[prov[k].from].op = "map") =>
            LET j == prov[k].from
                i == prov[j].from
                f == prov[j].fn
                g == prov[k].fn
                v == Stored(i)
            IN  /\ heap[k].class = "OkImpl"
                /\ heap[k].value = Invoke(g, Invoke(f, v).val).val
                /\ map(born[i], f \o g).kind = "new"
                /\ map(born[i], f \o g).obj.value = heap[k].value

C7_Witness ==
    \E k \in Refs :
        /\ prov[k].op = "map" /\ prov[k].fn = <<"flip">>
        /\ prov[prov[k].from].op = "map" /\ prov[prov[k].from].fn = <<"fail">>
        /\ heap[k].value = Null

\* C8: mapping the absent side is a no-op: Err(e).map(f) and Ok(v).mapError(f)
\* return the receiver, payload untouched, and never invoke f; on the present
\* side Err(e).mapError(f) is Err(f(e)).
C8_AbsentSideNoOp ==
    /\ (last.op = "map" /\ Receiver.class = "ErrImpl") =>
        /\ last.out.kind = "this" /\ last.ref = last.this
        /\ last.out.calls = <<>>
        /\ heap[last.ref].class = "ErrImpl"
        /\ heap[last.ref].error = Stored(last.this)
    /\ (last.op = "mapError" /\ Receiver.class = "OkImpl") =>
        /\ last.out.kind = "this" /\ last.ref = last.this
        /\ last.out.calls = <<>>
        /\ heap[last.ref].class = "OkImpl"
        /\ heap[last.ref].value = Stored(last.this)
    /\ (/\ last.op = "mapError" /\ Receiver.class = "ErrImpl"
        /\ ~Invoke(last.fn, Stored(last.this)).threw) =>
        /\ last.out.kind = "new"
        /\ heap[last.ref].class = "ErrImpl"
        /\ heap[last.ref].error = Invoke(last.fn, Stored(last.this)).val

C8_Witness ==
    /\ last.op = "map"
    /\ Receiver.class = "ErrImpl"
    /\ last.fn = <<"throws">>
    /\ last.out.kind = "this"

\* C9: after r.onOk(a) and r.onError(b) exactly one callback invocation has
\* happened: of a, with the value, if r is Ok; of b, with the error, if r is
\* Err.
C9_ExactlyOneCallback ==
    last.op = "onOk;onError" =>
        last.out.calls =
            IF Receiver.class = "OkImpl"
            THEN <<[fn |-> last.fn, arg |-> Stored(last.this)]>>
            ELSE <<[fn |-> last.fn2, arg |-> Stored(last.this)]>>

C9_Witness ==
    /\ last.op = "onOk;onError"
    /\ Receiver.class = "ErrImpl"
    /\ last.fn = <<"fail">> /\ last.fn2 = <<"flip">>
    /\ last.out.kind = "void"
    /\ Len(last.out.calls) = 1

\* C10: TryAsync calls fn exactly once, is suspended exactly once when fn
\* returns a promise, never resolves the promise it returned while fn's
\* promise is pending, and once fn's promise is settled
\* the returned promise is eventually fulfilled with a Result of the matching
\* variant: Ok for a fulfilment, Err for a rejection.
C10_Matches(t) ==
    /\ tasks[t].outer.state = "fulfilled"
    /\ tasks[t].outer.result.isOk = (tasks[t].inner.state = "fulfilled")

C10_ResolvesAfterSettle ==
    /\ [](\A t \in TaskIds :
            /\ tasks[t].pc # "idle" => tasks[t].calls = 1
            /\ tasks[t].pc # "idle" =>
                 tasks[t].awaits = IF tasks[t].sync.threw THEN 0 ELSE 1
            /\ tasks[t].inner.state = "pending" => tasks[t].outer.state = "pending")
    /\ \A t \in TaskIds : Settled(tasks[t].inner) ~> C10_Matches(t)

C10_Witness ==
    \E t, u \in TaskIds :
        /\ tasks[t].pc = "done"
        /\ tasks[t].inner.state = "fulfilled"
        /\ tasks[t].outer.result.class = "OkImpl"
        /\ tasks[u].pc = "awaiting"
        /\ tasks[u].inner.state = "pending"

====
